---- MODULE Spec2Model ----
(***************************************************************************)
(* A model of scripts/scraper.py (digestAI): the /api/sendDigest handler,  *)
(* the multi-source retrieval cascade get_quality_news with its title      *)
(* deduplication, the summarization gateway summarize with its extractive  *)
(* fallback, and the delivery step send_email_digest.                      *)
(*                                                                         *)
(* A text (Python str) is a sequence of one-character strings.             *)
(***************************************************************************)
EXTENDS Integers, Sequences, FiniteSets, TLC

VARIABLES
    env,          \* the process environment read through os.getenv
    req,          \* the NewsRequest being served: query, email, num_articles
    pc,           \* position of the request inside send_digest / get_quality_news
    articles,     \* get_quality_news: the local list `articles`
    fetched,      \* history: what each source call returned, in call order
    news,         \* send_digest: the list returned by get_quality_news
    idx,          \* send_digest: position of the summary loop in `news`
    summarized,   \* history: the summarize calls, by position in `news`
    hf_calls,     \* history: the requests.post calls to the inference endpoint
    delivered,    \* history: article lists handed to send_email_digest
    response,     \* the value send_digest returned, or NoResponse
    call,         \* a direct call of one of the pure functions: its name and arguments
    results       \* what the direct calls returned, in call order

vars == <<env, req, pc, articles, fetched, news, idx, summarized, hf_calls,
          delivered, response, call, results>>

----------------------------------------------------------------------------
(* Bounds of the model *)

\* largest num_articles a request asks for
MaxNum == 3
\* most entries an upstream answer (an API page, a search feed) carries
MaxEntries == 2
\* most entries one of the rss_feeds carries
MaxFeedEntries == 1
\* how many of the rss_feeds, from the first, carry entries or fail
LiveFeeds == 2

(* Program constants *)

\* len(text) < 300: too short to summarize
ShortTextThreshold == 300
\* len(w) > 3: a significant word
SignificantLen == 3
\* text[:1024]: the input handed to the inference endpoint
MaxModelInput == 1024
\* len(rss_feeds)
RssFeedCount == 5

----------------------------------------------------------------------------
(* Characters and texts *)

UpperCase == <<"A","B","C","D","E","F","G","H","I","J","K","L","M","N","O","P","Q","R","S","T","U","V","W","X","Y","Z">>
LowerCase == <<"a","b","c","d","e","f","g","h","i","j","k","l","m","n","o","p","q","r","s","t","u","v","w","x","y","z">>
Digits == <<"0","1","2","3","4","5","6","7","8","9">>

Range(s) == {s[i] : i \in DOMAIN s}
IndexOf(s, c) == CHOOSE i \in DOMAIN s : s[i] = c
Min(a, b) == IF a < b THEN a ELSE b
Max(a, b) == IF a > b THEN a ELSE b

UpperChars == Range(UpperCase)
LowerChars == Range(LowerCase)
DigitChars == Range(Digits)
WordChars == UpperChars \cup LowerChars \cup DigitChars \cup {"_"}
SpaceChars == {" ", "\n", "\t"}
TerminalChars == {".", "!", "?"}
ToLower == [c \in UpperChars |-> LowerCase[IndexOf(UpperCase, c)]]

\* ord(c) for the characters the model uses
CodePoint(c) ==
    IF c \in UpperChars THEN 64 + IndexOf(UpperCase, c)
    ELSE IF c \in LowerChars THEN 96 + IndexOf(LowerCase, c)
    ELSE IF c \in DigitChars THEN 47 + IndexOf(Digits, c)
    ELSE CASE c = "\t" -> 9  [] c = "\n" -> 10 [] c = " " -> 32 [] c = "!" -> 33
           [] c = "'" -> 39  [] c = "," -> 44  [] c = "-" -> 45 [] c = "." -> 46
           [] c = "/" -> 47  [] c = ":" -> 58  [] c = "=" -> 61 [] c = "?" -> 63
           [] c = "_" -> 95

\* str.lower(), one character
LowerChar(c) == IF c \in UpperChars THEN ToLower[c] ELSE c
\* str.lower()
lower(s) == [i \in 1..Len(s) |-> LowerChar(s[i])]

\* the regex class \w
IsWordChar(c) == c \in WordChars
\* the regex class \s, and what str.strip() and str.split() treat as blank
IsSpace(c) == c \in SpaceChars
\* the regex class [.!?]
IsTerminal(c) == c \in TerminalChars

\* the elements of a finite set of integers in ascending order
Ascending(S) ==
    [k \in 1..Cardinality(S) |-> CHOOSE i \in S : Cardinality({j \in S : j < i}) = k - 1]

\* a < b for texts, as Python compares str (by code point, shorter prefix first)
StrLess(a, b) ==
    \E i \in 1..(Min(Len(a), Len(b)) + 1) :
        /\ \A k \in 1..(i - 1) : a[k] = b[k]
        /\ \/ i > Len(a) /\ i <= Len(b)
           \/ i <= Len(a) /\ i <= Len(b) /\ CodePoint(a[i]) < CodePoint(b[i])

\* sorted(ws) for a list of texts
sorted(ws) ==
    LET rank(i) == Cardinality({j \in DOMAIN ws :
                       StrLess(ws[j], ws[i]) \/ (ws[j] = ws[i] /\ j < i)}) + 1
    IN  [k \in 1..Len(ws) |-> ws[CHOOSE i \in DOMAIN ws : rank(i) = k]]

RECURSIVE join(_, _)
\* sep.join(parts)
join(sep, parts) ==
    IF parts = <<>> THEN <<>>
    ELSE IF Len(parts) = 1 THEN parts[1]
    ELSE parts[1] \o sep \o join(sep, Tail(parts))

\* the maximal runs, left to right, of the characters that are in the class
\* (inside = TRUE) or that are not in it (inside = FALSE)
Runs(s, class, inside) ==
    LET in(i) == (s[i] \in class) = inside
        starts == {i \in DOMAIN s : in(i) /\ (i = 1 \/ ~in(i - 1))}
        stop(i) == CHOOSE j \in i..Len(s) :
                       /\ (j = Len(s) \/ ~in(j + 1))
                       /\ \A k \in i..j : in(k)
        st == Ascending(starts)
    IN  [k \in 1..Len(st) |-> SubSeq(s, st[k], stop(st[k]))]

\* re.findall(r'\w+', s)
findall_words(s) == Runs(s, WordChars, TRUE)

\* str.split() with no argument
split_whitespace(s) == Runs(s, SpaceChars, FALSE)

\* str.strip()
strip(s) ==
    IF \A i \in DOMAIN s : IsSpace(s[i]) THEN <<>>
    ELSE SubSeq(s,
             CHOOSE i \in DOMAIN s : ~IsSpace(s[i]) /\ \A j \in 1..(i - 1) : IsSpace(s[j]),
             CHOOSE i \in DOMAIN s : ~IsSpace(s[i]) /\ \A j \in (i + 1)..Len(s) : IsSpace(s[j]))

\* `term in s` for texts
Contains(s, term) ==
    \E i \in 1..(Len(s) - Len(term) + 1) : SubSeq(s, i, i + Len(term) - 1) = term

\* s[:n] for a Python list or str, n of either sign
Prefix(s, n) ==
    IF n >= 0 THEN SubSeq(s, 1, Min(n, Len(s)))
    ELSE SubSeq(s, 1, Max(Len(s) + n, 0))

\* [s[i] for i in range(len(s)) if i in positions]
Select(s, positions) ==
    LET keep == Ascending(positions)
    IN  [k \in 1..Len(keep) |-> s[keep[k]]]

----------------------------------------------------------------------------
(* normalize_title *)

\* a variant that also keeps the words of 3 characters
IsSignificant_from_three(w) == Len(w) >= SignificantLen

IsSignificant(w) == Len(w) > SignificantLen

\* a variant that keeps the words in the order of the title
normalize_title_unsorted(title) ==
    LET words == findall_words(lower(title))
        significant == Select(words, {i \in DOMAIN words : IsSignificant(words[i])})
    IN  join(<<" ">>, significant)

normalize_title(title) ==
    LET words == findall_words(lower(title))
        significant == Select(words, {i \in DOMAIN words : IsSignificant(words[i])})
    IN  join(<<" ">>, sorted(significant))

----------------------------------------------------------------------------
(* fallback_summarize *)

\* re.split(r'(?<=[.!?])\s+', text): a separator is a maximal run of blanks
\* whose first blank directly follows a sentence terminator
split_sentences(text) ==
    LET starts == {i \in DOMAIN text :
                       IsSpace(text[i]) /\ i > 1 /\ IsTerminal(text[i - 1])}
        stop(i) == CHOOSE j \in i..Len(text) :
                       /\ (j = Len(text) \/ ~IsSpace(text[j + 1]))
                       /\ \A k \in i..j : IsSpace(text[k])
        st == Ascending(starts)
        from(k) == IF k = 1 THEN 1 ELSE stop(st[k - 1]) + 1
        upto(k) == IF k = Len(st) + 1 THEN Len(text) ELSE st[k] - 1
    IN  [k \in 1..(Len(st) + 1) |-> SubSeq(text, from(k), upto(k))]

NonBlank(s) == strip(s) # <<>>

\* a variant without the test of line 338: it condenses every long text
fallback_summarize_no_count_check(text) ==
    IF Len(text) < ShortTextThreshold THEN text
    ELSE LET split_text == split_sentences(text)
             pieces == Select(split_text, {i \in DOMAIN split_text : NonBlank(split_text[i])})
             sentences == [k \in DOMAIN pieces |-> strip(pieces[k])]
         IN  IF sentences = <<>> THEN text
             ELSE join(<<" ">>, Prefix(sentences, 2)) \o <<" ">>
                      \o sentences[Len(sentences)]

\* a variant that keeps the first three sentences
fallback_summarize_first_three(text) ==
    IF Len(text) < ShortTextThreshold THEN text
    ELSE LET split_text == split_sentences(text)
             pieces == Select(split_text, {i \in DOMAIN split_text : NonBlank(split_text[i])})
             sentences == [k \in DOMAIN pieces |-> strip(pieces[k])]
         IN  IF Len(sentences) <= 3 THEN text
             ELSE join(<<" ">>, SubSeq(sentences, 1, 3))

fallback_summarize(text) ==
    IF Len(text) < ShortTextThreshold THEN text
    ELSE LET split_text == split_sentences(text)
             pieces == Select(split_text, {i \in DOMAIN split_text : NonBlank(split_text[i])})
             sentences == [k \in DOMAIN pieces |-> strip(pieces[k])]
         IN  IF Len(sentences) <= 3 THEN text
             ELSE join(<<" ">>, SubSeq(sentences, 1, 2)) \o <<" ">>
                      \o sentences[Len(sentences)]

----------------------------------------------------------------------------
(* Literal texts of the program *)

Untitled == <<"U","n","t","i","t","l","e","d">>
Unknown == <<"U","n","k","n","o","w","n">>
RSSFeed == <<"R","S","S"," ","F","e","e","d">>
GoogleNews == <<"G","o","o","g","l","e"," ","N","e","w","s">>
BingNews == <<"B","i","n","g"," ","N","e","w","s">>
DigestAI == <<"D","i","g","e","s","t","A","I">>
NewsAboutPrefix == <<"N","e","w","s"," ","a","b","o","u","t"," ">>
SearchUrlPrefix == <<"h","t","t","p","s",":","/","/","n","e","w","s",".","g","o","o","g","l","e",".","c","o","m","/","s","e","a","r","c","h","?","q","=">>
ApologyPrefix == <<"W","e"," ","c","o","u","l","d","n","'","t"," ","r","e","t","r","i","e","v","e"," ","s","p","e","c","i","f","i","c"," ","n","e","w","s"," ","a","r","t","i","c","l","e","s"," ","a","b","o","u","t"," ","'">>
ApologySuffix == <<"'","."," ","T","r","y"," ","v","i","s","i","t","i","n","g"," ","a"," ","n","e","w","s"," ","s","i","t","e"," ","d","i","r","e","c","t","l","y"," ","t","o"," ","s","e","a","r","c","h"," ","f","o","r"," ","t","h","i","s"," ","t","o","p","i","c",".">>
TitleSeparator == <<" ","-"," ">>

----------------------------------------------------------------------------
(* Articles.  An article is the dict the sources build, with the keys      *)
(* title, source, url, content and summary.  A key the dict lacks is the   *)
(* empty text here: the program reads content and summary only through     *)
(* dict.get and its truth value.  publishedAt is left out: only the        *)
(* mail formatting reads it.                                               *)

Article(title, source, url, content, summary) ==
    [title |-> title, source |-> source, url |-> url,
     content |-> content, summary |-> summary]

\* dict.get(key, default)
Get(d, key, default) == IF key \in DOMAIN d THEN d[key] ELSE default

\* what a fetch does: it raises, or it returns a list of articles
Raised == [raised |-> TRUE, arts |-> <<>>]
Returned(arts) == [raised |-> FALSE, arts |-> arts]

----------------------------------------------------------------------------
(* get_news_from_newsapi.  `answer` is what requests.get and               *)
(* response.json() do: kind "exception" (the transport raises), "status"   *)
(* (a status code other than 200), "bad_json" (the body does not parse),   *)
(* "ok" (a parsed body whose "articles" are `items`).  An item is a record *)
(* with some of the keys title, name (of its source), url, content,        *)
(* description.                                                            *)

newsapi_article(item) ==
    Article(Get(item, "title", Untitled),
            Get(item, "name", Unknown),
            Get(item, "url", <<>>),
            Get(item, "content", Get(item, "description", <<>>)),
            Get(item, "description", <<>>))

get_news_from_newsapi(answer, query, num_articles, api_key) ==
    IF ~api_key THEN Returned(<<>>)
    ELSE IF answer.kind = "exception" THEN Raised
    ELSE IF answer.kind = "status" THEN Returned(<<>>)
    ELSE IF answer.kind = "bad_json" THEN Raised
    ELSE Returned([k \in DOMAIN answer.items |-> newsapi_article(answer.items[k])])

----------------------------------------------------------------------------
(* get_news_from_rss.  `feeds` holds, for each url of rss_feeds in order,  *)
(* what feedparser.parse does: kind "exception", or kind "ok" with the     *)
(* feed's title and entries.  An entry is a record with some of the keys   *)
(* title, link, summary.                                                   *)

is_relevant(entry, query_terms) ==
    LET title == lower(Get(entry, "title", <<>>))
        summary == lower(Get(entry, "summary", <<>>))
    IN  \E term \in query_terms : Contains(title, term) \/ Contains(summary, term)

rss_article(entry, feed) ==
    Article(Get(entry, "title", Untitled),
            Get(feed, "title", RSSFeed),
            Get(entry, "link", <<>>),
            Get(entry, "summary", <<>>),
            Get(entry, "summary", <<>>))

RECURSIVE rss_entries(_, _, _, _, _)
\* the loop over feed.entries, appending to acc; it breaks once acc is full
rss_entries(entries, feed, query_terms, num_articles, acc) ==
    IF entries = <<>> THEN acc
    ELSE LET next == IF is_relevant(Head(entries), query_terms)
                     THEN Append(acc, rss_article(Head(entries), feed))
                     ELSE acc
         IN  IF Len(next) >= num_articles THEN next
             ELSE rss_entries(Tail(entries), feed, query_terms, num_articles, next)

RECURSIVE rss_feeds_loop(_, _, _, _)
\* the loop over rss_feeds; a feed whose parse raises is logged and skipped
rss_feeds_loop(feeds, query_terms, num_articles, acc) ==
    IF feeds = <<>> THEN acc
    ELSE IF Head(feeds).kind = "exception"
         THEN rss_feeds_loop(Tail(feeds), query_terms, num_articles, acc)
    ELSE LET next == rss_entries(Head(feeds).entries, Head(feeds), query_terms,
                                 num_articles, acc)
         IN  IF Len(next) >= num_articles THEN next
             ELSE rss_feeds_loop(Tail(feeds), query_terms, num_articles, next)

get_news_from_rss(feeds, query, num_articles) ==
    Returned(rss_feeds_loop(feeds, Range(split_whitespace(lower(query))),
                            num_articles, <<>>))

----------------------------------------------------------------------------
(* get_news_from_google and get_news_from_bing.  `feed` is what            *)
(* feedparser.parse does, as above.                                        *)

RECURSIVE split(_, _)
\* s.split(sep)
split(s, sep) ==
    LET hits == {i \in 1..(Len(s) - Len(sep) + 1) : SubSeq(s, i, i + Len(sep) - 1) = sep}
    IN  IF hits = {} THEN <<s>>
        ELSE LET i == CHOOSE h \in hits : \A g \in hits : h <= g
             IN  <<SubSeq(s, 1, i - 1)>> \o split(SubSeq(s, i + Len(sep), Len(s)), sep)

google_article(entry) ==
    LET title_parts == split(entry.title, TitleSeparator)
        many == Len(title_parts) > 1
    IN  Article(IF many
                THEN join(TitleSeparator, SubSeq(title_parts, 1, Len(title_parts) - 1))
                ELSE entry.title,
                IF many THEN title_parts[Len(title_parts)] ELSE GoogleNews,
                entry.link,
                Get(entry, "summary", <<>>),
                Get(entry, "summary", <<>>))

get_news_from_google(feed, query, num_articles) ==
    IF feed.kind = "exception" THEN Returned(<<>>)
    ELSE LET entries == Prefix(feed.entries, num_articles)
         IN  \* entry.title, entry.link: an attribute the entry lacks raises,
             \* the handler returns []
             IF \E k \in DOMAIN entries : ~({"title", "link"} \subseteq DOMAIN entries[k])
             THEN Returned(<<>>)
             ELSE Returned([k \in DOMAIN entries |-> google_article(entries[k])])

bing_article(entry) ==
    Article(Get(entry, "title", Untitled),
            BingNews,
            Get(entry, "link", <<>>),
            Get(entry, "summary", <<>>),
            Get(entry, "summary", <<>>))

get_news_from_bing(feed, query, num_articles) ==
    IF feed.kind = "exception" THEN Returned(<<>>)
    ELSE LET entries == Prefix(feed.entries, num_articles)
         IN  Returned([k \in DOMAIN entries |-> bing_article(entries[k])])

----------------------------------------------------------------------------
(* get_quality_news: the pieces of its body *)

\* the fallback article of lines 118-124
placeholder(query) ==
    Article(NewsAboutPrefix \o query,
            DigestAI,
            SearchUrlPrefix \o query,
            <<>>,
            ApologyPrefix \o query \o ApologySuffix)

RECURSIVE dedup_loop(_, _, _)
\* the loop of lines 130-136 over `articles`, with seen_titles and unique_articles
dedup_loop(arts, seen_titles, unique_articles) ==
    IF arts = <<>> THEN unique_articles
    ELSE LET norm_title == normalize_title(Head(arts).title)
         IN  IF norm_title \notin seen_titles
             THEN dedup_loop(Tail(arts), seen_titles \cup {norm_title},
                             Append(unique_articles, Head(arts)))
             ELSE dedup_loop(Tail(arts), seen_titles, unique_articles)

\* a variant that returns the accumulated list as it is
early_return_untruncated(arts, num_articles) == arts

\* a variant that cuts one article too many
early_return_one_short(arts, num_articles) == Prefix(arts, num_articles - 1)

\* `return articles[:num_articles]` of lines 84, 94 and 104
early_return(arts, num_articles) == Prefix(arts, num_articles)

\* a variant without the fallback article
final_return_no_placeholder(arts, query, num_articles) ==
    Prefix(dedup_loop(arts, {}, <<>>), num_articles)

\* lines 116-138: the fallback article, the deduplication, the truncation
final_return(arts, query, num_articles) ==
    LET filled == IF arts = <<>> THEN <<placeholder(query)>> ELSE arts
    IN  Prefix(dedup_loop(filled, {}, <<>>), num_articles)

\* a variant that puts the result of a source before the accumulated articles
after_fetch_prepend(arts, out) == IF out.raised THEN arts ELSE out.arts \o arts

\* a variant that assigns the result of every source, as line 82 does for
\* the first, where lines 92, 102 and 112 extend the list
after_fetch_replace(arts, out) == IF out.raised THEN arts ELSE out.arts

\* the list `articles` after a source call inside try/except: a fetch that
\* raised leaves it as it was (the handler only logs)
after_fetch(arts, out) == IF out.raised THEN arts ELSE arts \o out.arts

\* a variant without the handlers: a fetch that raised ends get_quality_news
after_call_abort(out, arts, num_articles, next_source) ==
    IF out.raised THEN "raised"
    ELSE IF Len(arts) >= num_articles THEN "return"
    ELSE next_source

\* where get_quality_news goes after a source call: a fetch that raised is
\* logged and the next source is tried; a full list is returned at once
after_call(out, arts, num_articles, next_source) ==
    IF out.raised THEN next_source
    ELSE IF Len(arts) >= num_articles THEN "return"
    ELSE next_source

\* the entry of `fetched` for one source call
Call(source, limit, out) ==
    [source |-> source, limit |-> limit, raised |-> out.raised, arts |-> out.arts]

----------------------------------------------------------------------------
(* summarize.  `answer` is what requests.post and response.json() do: kind *)
(* "exception", "status" (not 200), "malformed" (a body without            *)
(* [0]["summary_text"]), "ok" (with summary_text).                         *)

\* a variant that posts every text when a key is set
summarize_no_short_check(text, api_key, answer) ==
    IF ~api_key THEN [result |-> fallback_summarize(text), posted |-> FALSE]
    ELSE IF answer.kind = "ok" THEN [result |-> answer.summary_text, posted |-> TRUE]
    ELSE [result |-> fallback_summarize(text), posted |-> TRUE]

\* a variant whose fallback works on the text as cut for the model
summarize_fallback_on_inputs(text, api_key, answer) ==
    IF ~api_key THEN [result |-> fallback_summarize(text), posted |-> FALSE]
    ELSE IF Len(text) < ShortTextThreshold THEN [result |-> text, posted |-> FALSE]
    ELSE IF answer.kind = "ok" THEN [result |-> answer.summary_text, posted |-> TRUE]
    ELSE [result |-> fallback_summarize(Prefix(text, MaxModelInput)), posted |-> TRUE]

\* [the text returned, whether requests.post was called]
summarize(text, api_key, answer) ==
    IF ~api_key THEN [result |-> fallback_summarize(text), posted |-> FALSE]
    ELSE IF Len(text) < ShortTextThreshold THEN [result |-> text, posted |-> FALSE]
    ELSE IF answer.kind = "ok" THEN [result |-> answer.summary_text, posted |-> TRUE]
    ELSE [result |-> fallback_summarize(text), posted |-> TRUE]

\* a variant that summarizes every article with content
needs_summary_any_content(article) == article.content # <<>>

\* line 56: the articles send_digest summarizes
needs_summary(article) == article.content # <<>> /\ article.summary = <<>>

----------------------------------------------------------------------------
(* send_email_digest.  `smtp` is what the SMTP session does: "ok" or       *)
(* "fail".  The composition of the message is left out.                    *)

send_email_digest(environment, smtp) ==
    IF ~environment.ORIGIN_EMAIL
    THEN [raised |-> TRUE,
          message |-> "Email sender address not configured in environment variables"]
    ELSE IF ~environment.EMAIL_PASSWORD
    THEN [raised |-> TRUE,
          message |-> "Email password not configured in environment variables"]
    ELSE IF smtp = "fail"
    THEN [raised |-> TRUE, message |-> "Failed to send email"]
    ELSE [raised |-> FALSE, message |-> ""]

\* what the message shows of the articles: lines 370-390 and 414-433 read
\* title, source, url and summary of each (and publishedAt), never content
rendered(arts) ==
    [k \in DOMAIN arts |->
        [title |-> arts[k].title, source |-> arts[k].source,
         url |-> arts[k].url, summary |-> arts[k].summary]]

\* no direct call of a function is under way
NoCall == [fn |-> "none", args |-> <<>>]

\* the responses of send_digest
NoResponse == [status |-> "none"]
\* a variant that counts the articles that carry a summary
digest_sent_counts_summarized(arts) ==
    [status |-> "digest sent",
     article_count |-> Cardinality({k \in DOMAIN arts : arts[k].summary # <<>>}),
     articles |-> [k \in DOMAIN arts |-> [title |-> arts[k].title, source |-> arts[k].source]]]

digest_sent(arts) ==
    [status |-> "digest sent",
     article_count |-> Len(arts),
     articles |-> [k \in DOMAIN arts |-> [title |-> arts[k].title, source |-> arts[k].source]]]
no_articles_found(query) == [status |-> "no articles found", query |-> query]
error_response(message) == [status |-> "error", message |-> message]

\* a variant that never takes the branch
no_articles_never(arts) == FALSE

\* line 50: `if not articles`
no_articles(arts) == arts = <<>>

\* a variant that does not look at the outcome of the delivery
after_delivery_unchecked(out, arts) == digest_sent(arts)

\* lines 61-73: the response after send_email_digest returned or raised
after_delivery(out, arts) ==
    IF out.raised THEN error_response(out.message) ELSE digest_sent(arts)

----------------------------------------------------------------------------
(* The inputs: requests, environments and what the upstream services answer *)

QueryTesla == <<"t","e","s","l","a"," ","c","a","r","s">>
TitleTeslaCars == <<"T","e","s","l","a"," ","C","a","r","s">>
TitleTeslaUpper == <<"T","E","S","L","A"," ","c","a","r","s">>
TitleFordVans == <<"F","o","r","d"," ","V","a","n","s">>
TitleOilIsUp == <<"O","i","l"," ","i","s"," ","u","p">>
TitleGasIsUp == <<"G","a","s"," ","i","s"," ","u","p">>
TitleGoogleTesla == <<"C","a","r","s",":"," ","T","e","s","l","a","!"," ","-"," ","W","i","r","e","d">>
TitleBingTesla == <<"c","a","r","s"," ","t","e","s","l","a">>
Wired == <<"W","i","r","e","d">>
BBC == <<"B","B","C">>
CNN == <<"C","N","N">>
VansSell == <<"V","a","n","s"," ","s","e","l","l",".">>
Recall == <<"R","e","c","a","l","l",".">>
GSays == <<"G"," ","s","a","y","s",".">>
BingSays == <<"B","i","n","g"," ","s","a","y","s",".">>
ModelSummary == <<"M","o","d","e","l"," ","s","u","m","m","a","r","y",".">>
Recipient == <<"a","@","b">>

\* a sentence of k letters c and a full stop
Sentence(c, k) == [i \in 1..k |-> c] \o <<".">>
\* four sentences, 1034 characters: longer than the model input, and the
\* third sentence ends after the point where the input is cut
LongContent ==
    Sentence("a", 99) \o <<" ">> \o Sentence("b", 99) \o <<" ">>
        \o Sentence("c", 820) \o <<"\n">> \o Sentence("d", 9)

\* four sentences, 299 characters: one short of the threshold
NearThreshold ==
    Sentence("v", 99) \o <<" ">> \o Sentence("w", 99) \o <<" ">>
        \o Sentence("x", 48) \o <<" ">> \o Sentence("y", 46)

Url(site, k) == <<site, "/", Digits[k + 1]>>

SeqsUpTo(S, n) == UNION {[1..m -> S] : m \in 0..n}

EnvNames == {"NEWSAPI_KEY", "HUGGINGFACE_API_KEY", "ORIGIN_EMAIL", "EMAIL_PASSWORD"}

\* every variable set, exactly one of them missing, or none set
Environments ==
    {e \in [EnvNames -> BOOLEAN] :
        Cardinality({v \in EnvNames : ~e[v]}) \in {0, 1, Cardinality(EnvNames)}}

Requests ==
    [query : {QueryTesla}, email : {Recipient}, num_articles : 0..MaxNum]

NewsApiItems ==
    { [title |-> TitleTeslaCars, name |-> Wired, url |-> Url("w", 1),
       content |-> LongContent],
      [title |-> TitleFordVans, name |-> BBC, url |-> Url("b", 2),
       content |-> NearThreshold, description |-> <<>>] }

NewsApiAnswers ==
    {[kind |-> "exception"], [kind |-> "status"], [kind |-> "bad_json"]}
        \cup {[kind |-> "ok", items |-> items] : items \in SeqsUpTo(NewsApiItems, MaxEntries)}

RssEntries ==
    { [title |-> TitleTeslaUpper, link |-> Url("r", 1), summary |-> Recall],
      [title |-> TitleFordVans, link |-> Url("r", 2), summary |-> VansSell] }

FeedAnswers ==
    {[kind |-> "exception"]}
        \cup {[kind |-> "ok", title |-> CNN, entries |-> entries] :
                 entries \in SeqsUpTo(RssEntries, MaxFeedEntries)}

EmptyFeed == [kind |-> "ok", title |-> CNN, entries |-> <<>>]

RssAnswers ==
    {[i \in 1..RssFeedCount |-> IF i <= LiveFeeds THEN live[i] ELSE EmptyFeed] :
        live \in [1..Min(LiveFeeds, RssFeedCount) -> FeedAnswers]}

GoogleEntries ==
    { [title |-> TitleGoogleTesla, link |-> Url("g", 1), summary |-> GSays],
      [title |-> TitleGasIsUp, link |-> Url("g", 2)],
      [link |-> Url("g", 3)] }

GoogleAnswers ==
    {[kind |-> "exception"]}
        \cup {[kind |-> "ok", entries |-> entries] :
                 entries \in SeqsUpTo(GoogleEntries, MaxEntries)}

BingEntries ==
    { [title |-> TitleBingTesla, link |-> Url("x", 1), summary |-> BingSays],
      [title |-> TitleOilIsUp, link |-> Url("x", 2)] }

BingAnswers ==
    {[kind |-> "exception"]}
        \cup {[kind |-> "ok", entries |-> entries] :
                 entries \in SeqsUpTo(BingEntries, MaxEntries)}

HfAnswers ==
    {[kind |-> "exception"], [kind |-> "status"], [kind |-> "malformed"],
     [kind |-> "ok", summary_text |-> ModelSummary]}

SmtpAnswers == {"ok", "fail"}

----------------------------------------------------------------------------
(* The state machine: one request served by send_digest *)

Init ==
    /\ env \in Environments
    /\ req = [query |-> <<>>, email |-> <<>>, num_articles |-> 0]
    /\ pc = "idle"
    /\ articles = <<>>
    /\ fetched = <<>>
    /\ news = <<>>
    /\ idx = 0
    /\ summarized = <<>>
    /\ hf_calls = <<>>
    /\ delivered = <<>>
    /\ response = NoResponse
    /\ call = NoCall
    /\ results = <<>>

\* POST /api/sendDigest arrives; send_digest calls get_quality_news
ReceiveRequest ==
    /\ pc = "idle"
    /\ \E r \in Requests : req' = r
    /\ pc' = "newsapi"
    /\ UNCHANGED <<call, results, env, articles, fetched, news, idx, summarized, hf_calls,
                   delivered, response>>

\* get_quality_news leaves by `return arts`, or goes on to the next source
Leave(target, arts, returned) ==
    /\ articles' = arts
    /\ IF target = "return"
       THEN pc' = "returned" /\ news' = returned
       ELSE pc' = target /\ UNCHANGED news

\* lines 80-86
TryNewsAPI ==
    /\ pc = "newsapi"
    /\ IF env.NEWSAPI_KEY
       THEN \E answer \in NewsApiAnswers :
               LET out == get_news_from_newsapi(answer, req.query, req.num_articles,
                                                env.NEWSAPI_KEY)
                   arts == after_fetch(articles, out)
               IN  /\ fetched' = Append(fetched, Call("newsapi", req.num_articles, out))
                   /\ Leave(after_call(out, arts, req.num_articles, "rss"), arts,
                            early_return(arts, req.num_articles))
       ELSE pc' = "rss" /\ UNCHANGED <<articles, fetched, news>>
    /\ UNCHANGED <<call, results, env, req, idx, summarized, hf_calls, delivered, response>>

\* lines 89-96
TryRSS ==
    /\ pc = "rss"
    /\ IF Len(articles) < req.num_articles
       THEN \E feeds \in RssAnswers :
               LET limit == req.num_articles - Len(articles)
                   out == get_news_from_rss(feeds, req.query, limit)
                   arts == after_fetch(articles, out)
               IN  /\ fetched' = Append(fetched, Call("rss", limit, out))
                   /\ Leave(after_call(out, arts, req.num_articles, "google"), arts,
                            early_return(arts, req.num_articles))
       ELSE pc' = "google" /\ UNCHANGED <<articles, fetched, news>>
    /\ UNCHANGED <<call, results, env, req, idx, summarized, hf_calls, delivered, response>>

\* lines 99-106
TryGoogle ==
    /\ pc = "google"
    /\ IF Len(articles) < req.num_articles
       THEN \E feed \in GoogleAnswers :
               LET limit == req.num_articles - Len(articles)
                   out == get_news_from_google(feed, req.query, limit)
                   arts == after_fetch(articles, out)
               IN  /\ fetched' = Append(fetched, Call("google", limit, out))
                   /\ Leave(after_call(out, arts, req.num_articles, "bing"), arts,
                            early_return(arts, req.num_articles))
       ELSE pc' = "bing" /\ UNCHANGED <<articles, fetched, news>>
    /\ UNCHANGED <<call, results, env, req, idx, summarized, hf_calls, delivered, response>>

\* lines 109-138: the last source, then the fallback article, the
\* deduplication and the truncated return
TryBing ==
    /\ pc = "bing"
    /\ IF Len(articles) < req.num_articles
       THEN \E feed \in BingAnswers :
               LET limit == req.num_articles - Len(articles)
                   out == get_news_from_bing(feed, req.query, limit)
                   arts == after_fetch(articles, out)
               IN  /\ fetched' = Append(fetched, Call("bing", limit, out))
                   /\ Leave("return", arts,
                            final_return(arts, req.query, req.num_articles))
       ELSE /\ UNCHANGED fetched
            /\ Leave("return", articles,
                     final_return(articles, req.query, req.num_articles))
    /\ UNCHANGED <<call, results, env, req, idx, summarized, hf_calls, delivered, response>>

\* lines 48-51
CheckArticles ==
    /\ pc = "returned"
    /\ IF no_articles(news)
       THEN pc' = "done" /\ response' = no_articles_found(req.query) /\ UNCHANGED idx
       ELSE pc' = "summaries" /\ idx' = 1 /\ UNCHANGED response
    /\ UNCHANGED <<call, results, env, req, articles, fetched, news, summarized, hf_calls, delivered>>

\* lines 55-57: one round of the loop over the articles
SummarizeNext ==
    /\ pc = "summaries"
    /\ idx <= Len(news)
    /\ IF needs_summary(news[idx])
       THEN \E answer \in HfAnswers :
               LET text == news[idx].content
                   got == summarize(text, env.HUGGINGFACE_API_KEY, answer)
               IN  /\ news' = [news EXCEPT ![idx].summary = got.result]
                   /\ summarized' = Append(summarized,
                          [pos |-> idx, posted |-> got.posted,
                           kind |-> IF got.posted THEN answer.kind ELSE "none"])
                   /\ hf_calls' = IF got.posted
                                  THEN Append(hf_calls,
                                      [pos |-> idx,
                                       inputs_len |-> Len(Prefix(text, MaxModelInput))])
                                  ELSE hf_calls
       ELSE UNCHANGED <<news, summarized, hf_calls>>
    /\ idx' = idx + 1
    /\ UNCHANGED <<call, results, env, req, pc, articles, fetched, delivered, response>>

\* lines 60-73: the delivery and the response
SendEmail ==
    /\ pc = "summaries"
    /\ idx > Len(news)
    /\ \E smtp \in SmtpAnswers :
          LET out == send_email_digest(env, smtp)
          IN  /\ delivered' = Append(delivered,
                     [to |-> req.email, articles |-> rendered(news),
                      raised |-> out.raised])
              /\ response' = after_delivery(out, news)
    /\ pc' = "done"
    /\ UNCHANGED <<call, results, env, req, articles, fetched, news, idx, summarized, hf_calls>>

Next ==
    \/ ReceiveRequest
    \/ TryNewsAPI
    \/ TryRSS
    \/ TryGoogle
    \/ TryBing
    \/ CheckArticles
    \/ SummarizeNext
    \/ SendEmail

Spec == Init /\ [][Next]_vars

----------------------------------------------------------------------------
(* Direct calls of the pure functions fallback_summarize and               *)
(* normalize_title, on texts built from a few pieces                       *)

\* most pieces a text handed to fallback_summarize is built from
MaxPieces == 4
\* most tokens a title handed to normalize_title is built from
MaxTitleTokens == 2

\* k times the character c
Repeat(c, k) == [i \in 1..k |-> c]

\* the pieces of a text: a long sentence and a blank; a short sentence that
\* starts with a blank and ends with a line break; a sentence with a full
\* stop that no blank follows, ended by two blanks; words without an end
TextPieces ==
    { Repeat("a", 150) \o <<".", " ">>,
      <<" ">> \o Repeat("b", 60) \o <<"!", "\n">>,
      Repeat("c", 50) \o <<".", "5", "?", " ", " ">>,
      Repeat("d", 100) }

RECURSIVE Concat(_)
\* "".join(parts)
Concat(parts) == IF parts = <<>> THEN <<>> ELSE Head(parts) \o Concat(Tail(parts))

Texts == {Concat(parts) : parts \in SeqsUpTo(TextPieces, MaxPieces)}

\* the tokens of a title: words in either case, with punctuation around
\* them, a short word, a word with an underscore
TitleTokens ==
    { <<"T","e","s","l","a","!">>, <<"t","e","s","l","a",",">>,
      <<"(","C","A","R","S",")">>, <<"c","a","r","s">>,
      <<"i","s">>, <<"e","_","c","a","r">> }

Titles == {join(<<" ">>, tokens) : tokens \in SeqsUpTo(TitleTokens, MaxTitleTokens)}

Calls ==
    {[fn |-> "fallback_summarize", args |-> <<t>>] : t \in Texts}
        \cup {[fn |-> "normalize_title", args |-> <<t1, t2>>] : t1 \in Titles, t2 \in Titles}

request_vars ==
    <<env, req, pc, articles, fetched, news, idx, summarized, hf_calls, delivered, response>>

InitFunctions ==
    /\ env = [v \in EnvNames |-> TRUE]
    /\ req = [query |-> <<>>, email |-> <<>>, num_articles |-> 0]
    /\ pc = "idle"
    /\ articles = <<>>
    /\ fetched = <<>>
    /\ news = <<>>
    /\ idx = 0
    /\ summarized = <<>>
    /\ hf_calls = <<>>
    /\ delivered = <<>>
    /\ response = NoResponse
    /\ call \in Calls
    /\ results = <<>>

\* fallback_summarize(text)
CallFallbackSummarize ==
    /\ call.fn = "fallback_summarize"
    /\ results = <<>>
    /\ results' = <<fallback_summarize(call.args[1])>>
    /\ UNCHANGED <<call, request_vars>>

\* fallback_summarize(fallback_summarize(text)): the summary summarized again
CallFallbackSummarizeAgain ==
    /\ call.fn = "fallback_summarize"
    /\ Len(results) = 1
    /\ results' = Append(results, fallback_summarize(results[1]))
    /\ UNCHANGED <<call, request_vars>>

\* normalize_title(t1), normalize_title(t2)
CallNormalizeTitle ==
    /\ call.fn = "normalize_title"
    /\ results = <<>>
    /\ results' = [k \in DOMAIN call.args |-> normalize_title(call.args[k])]
    /\ UNCHANGED <<call, request_vars>>

NextFunctions ==
    \/ CallFallbackSummarize
    \/ CallFallbackSummarizeAgain
    \/ CallNormalizeTitle

SpecFunctions == InitFunctions /\ [][NextFunctions]_vars

----------------------------------------------------------------------------
(* Properties of get_quality_news *)

Positions ==
    {"idle", "newsapi", "rss", "google", "bing", "returned", "summaries", "done"}

\* get_quality_news has returned; `news` holds what it returned
HasReturned == pc \in {"returned", "summaries", "done"}

\* the NormalizedTitleKey of an article
Key(article) == normalize_title(article.title)

RECURSIVE ConcatArts(_)
\* the results of the source calls, one after the other
ConcatArts(calls) ==
    IF calls = <<>> THEN <<>> ELSE Head(calls).arts \o ConcatArts(Tail(calls))

NextSource == [newsapi |-> "rss", rss |-> "google", google |-> "bing", bing |-> "none"]

\* C1: for num_articles >= 1, no two articles of the sequence returned by
\* get_quality_news have the same normalize_title key
C1_NoTwoReturnedShareKey ==
    (pc = "returned" /\ req.num_articles >= 1) =>
        \A i, j \in DOMAIN news : i < j => Key(news[i]) # Key(news[j])

\* C2: when a source called earlier and a source called later both returned an
\* article with the same normalize_title key, the returned sequence holds an
\* article with that key from the earlier source (or one above it) and does
\* not hold the later source's article
C2_HigherPrioritySourceWins ==
    (pc = "returned" /\ req.num_articles >= 1) =>
        \A a, b \in DOMAIN fetched : a < b =>
            \A x \in Range(fetched[a].arts), y \in Range(fetched[b].arts) :
                Key(x) = Key(y) =>
                    /\ y \notin Range(news)
                    /\ \E i \in DOMAIN news, c \in 1..a :
                           Key(news[i]) = Key(x) /\ news[i] \in Range(fetched[c].arts)

\* C3: for num_articles >= 1 the sequence returned by get_quality_news is never
\* longer than num_articles, whichever return it leaves by
C3_AtMostNumArticles ==
    (HasReturned /\ req.num_articles >= 1) => Len(news) <= req.num_articles

\* a source returned more than the limit it was called with, and the result
\* is full
C3_Witness ==
    /\ pc = "returned" /\ req.num_articles >= 1
    /\ \E k \in DOMAIN fetched : Len(fetched[k].arts) > fetched[k].limit
    /\ Len(news) = req.num_articles

\* C4: for num_articles >= 1, if every source consulted returned nothing, the
\* result is one article whose title contains the query, whose source is
\* "DigestAI" and which carries a summary; if a source returned an article,
\* no article of the result has the source "DigestAI"
C4_PlaceholderIffNothingFound ==
    (pc = "returned" /\ req.num_articles >= 1) =>
        IF \A k \in DOMAIN fetched : fetched[k].arts = <<>>
        THEN /\ Len(news) = 1
             /\ Contains(news[1].title, req.query)
             /\ news[1].source = DigestAI
             /\ Contains(news[1].summary, req.query)
             /\ news[1].content = <<>>
        ELSE \A i \in DOMAIN news : news[i].source # DigestAI

\* all four sources were consulted, none returned an article, and the
\* placeholder came back
C4_Witness ==
    /\ pc = "returned" /\ req.num_articles >= 1
    /\ Len(fetched) = 4
    /\ \A k \in DOMAIN fetched : fetched[k].arts = <<>>
    /\ Len(news) = 1 /\ news[1].source = DigestAI

\* C5: a fetch that raises never ends get_quality_news: the accumulated list
\* stays the concatenation of what the calls returned (the failed call adds
\* nothing, nothing is lost), and while fewer than num_articles are
\* accumulated the next source in priority order is consulted
C5_SourceFailureNeverAborts ==
    /\ pc \in Positions
    /\ articles = ConcatArts(fetched)
    /\ \A k \in DOMAIN fetched :
          (fetched[k].raised /\ Len(ConcatArts(SubSeq(fetched, 1, k))) < req.num_articles) =>
              /\ fetched[k].arts = <<>>
              /\ IF fetched[k].source = "bing" THEN HasReturned
                 ELSE IF k < Len(fetched)
                      THEN fetched[k + 1].source = NextSource[fetched[k].source]
                      ELSE pc = NextSource[fetched[k].source]

\* the first source raised, a later one delivered, and the articles came back
C5_Witness ==
    /\ pc = "returned" /\ req.num_articles >= 1
    /\ fetched # <<>> /\ fetched[1].raised
    /\ \E k \in DOMAIN fetched : fetched[k].arts # <<>>
    /\ news # <<>> /\ news[1].source # DigestAI

----------------------------------------------------------------------------
(* Properties of send_digest and summarize *)

SummarizedPositions == {summarized[k].pos : k \in DOMAIN summarized}

\* C6: a request ends with exactly one response, whose status is "digest sent",
\* "no articles found" or "error", and none before it ends; a delivery
\* that raised (as it does when ORIGIN_EMAIL or EMAIL_PASSWORD is missing)
\* ends with status "error" and a message, never with "digest sent"
C6_AlwaysStructuredResponse ==
    /\ pc \in Positions
    /\ (pc = "done") = (response # NoResponse)
    /\ pc = "done" => response.status \in {"digest sent", "no articles found", "error"}
    /\ \A k \in DOMAIN delivered :
          /\ (~env.ORIGIN_EMAIL \/ ~env.EMAIL_PASSWORD) => delivered[k].raised
          /\ delivered[k].raised =>
                /\ response.status = "error"
                /\ DOMAIN response = {"status", "message"}
                /\ response.message # ""
    /\ response.status = "digest sent" =>
          Len(delivered) = 1 /\ ~delivered[1].raised

\* the sender address is missing, the delivery was tried, the answer is "error"
C6_Witness ==
    /\ pc = "done" /\ ~env.ORIGIN_EMAIL
    /\ delivered # <<>> /\ delivered[1].raised
    /\ response.status = "error"

\* C7: summarize returns a content shorter than 300 characters unchanged and
\* does not call the inference endpoint for it, with or without the API key
C7_ShortContentUnchanged ==
    \A k \in DOMAIN summarized :
        LET p == summarized[k].pos
        IN  Len(news[p].content) < ShortTextThreshold =>
                /\ news[p].summary = news[p].content
                /\ ~summarized[k].posted
                /\ \A h \in DOMAIN hf_calls : hf_calls[h].pos # p

\* summarize was called with the API key set on a content of 299 characters
C7_Witness ==
    /\ env.HUGGINGFACE_API_KEY
    /\ \E k \in DOMAIN summarized :
          Len(news[summarized[k].pos].content) = ShortTextThreshold - 1

\* C8: without the API key, or when the call to the endpoint fails (exception,
\* status other than 200, malformed body), the result of summarize is
\* fallback_summarize of the whole content; it is the endpoint's summary_text
\* only after a well-formed answer with status 200
C8_FallbackOnAnyFailure ==
    \A k \in DOMAIN summarized :
        LET p == summarized[k].pos
        IN  /\ summarized[k].kind \in {"none", "exception", "status", "malformed", "ok"}
            /\ ~env.HUGGINGFACE_API_KEY => summarized[k].kind = "none"
            /\ IF summarized[k].kind = "ok"
               THEN summarized[k].posted /\ news[p].summary = ModelSummary
               ELSE news[p].summary = fallback_summarize(news[p].content)

\* the endpoint answered a content longer than the model input with a status
\* other than 200, and the fallback condensed the content
C8_Witness ==
    \E k \in DOMAIN summarized :
        LET p == summarized[k].pos
        IN  /\ summarized[k].kind = "status"
            /\ Len(news[p].content) > MaxModelInput
            /\ news[p].summary # news[p].content
            /\ news[p].summary # <<>>

\* C9: when get_quality_news returned an empty sequence, send_digest answers
\* "no articles found" with the query, and neither summarize nor
\* send_email_digest (nor the inference endpoint) is called
C9_EmptyResultShortCircuits ==
    (HasReturned /\ news = <<>>) =>
        /\ pc \in {"returned", "done"}
        /\ summarized = <<>> /\ hf_calls = <<>> /\ delivered = <<>>
        /\ pc = "done" => response = [status |-> "no articles found", query |-> req.query]

\* get_quality_news returned nothing and the request was answered
C9_Witness ==
    /\ pc = "done" /\ news = <<>>
    /\ response.status = "no articles found"

\* one step of send_digest, as C10 describes it
C10_Step ==
    /\ IF pc = "summaries" /\ idx <= Len(news)
       THEN /\ idx' = idx + 1
            /\ IF news[idx].content # <<>> /\ news[idx].summary = <<>>
               THEN /\ Len(summarized') = Len(summarized) + 1
                    /\ SubSeq(summarized', 1, Len(summarized)) = summarized
                    /\ summarized'[Len(summarized')].pos = idx
                    /\ idx \notin SummarizedPositions
                    /\ news' = [news EXCEPT ![idx].summary = news'[idx].summary]
               ELSE summarized' = summarized /\ news' = news
       ELSE /\ summarized' = summarized
            /\ HasReturned => news' = news
    /\ delivered' # delivered =>
          /\ idx > Len(news)
          /\ Len(delivered') = Len(delivered) + 1
          /\ delivered'[Len(delivered')].articles = rendered(news)
          /\ \A p \in DOMAIN news : news[p].content = <<>> => p \notin SummarizedPositions

\* C10: send_digest calls summarize for an article exactly when the article has
\* content and no summary, then writes that article's summary and nothing
\* else; every other article stays as it is; no article is summarized twice;
\* the articles are delivered as they stand after the loop, those without
\* content never having been summarized
C10_SummarizeOnlyWhereNeeded == [][C10_Step]_vars

\* a digest went out with an article that was summarized, one that kept the
\* summary it came with, and one without content
C10_Witness ==
    /\ pc = "done" /\ delivered # <<>>
    /\ SummarizedPositions # {}
    /\ \E p \in DOMAIN news \ SummarizedPositions :
          news[p].content # <<>> /\ news[p].summary # <<>>
    /\ \E p \in DOMAIN news : news[p].content = <<>> /\ news[p].summary = <<>>

----------------------------------------------------------------------------
(* Properties of the sources *)

\* C11: no call of a source (get_news_from_newsapi, get_news_from_rss,
\* get_news_from_google, get_news_from_bing) raises to get_quality_news: a
\* failure inside the source is caught there and the call returns the empty
\* list
C11_SourcesNeverRaise ==
    \A k \in DOMAIN fetched : ~fetched[k].raised

----------------------------------------------------------------------------
(* Properties of fallback_summarize *)

RECURSIVE DropBlanks(_)
\* the text without its leading blanks
DropBlanks(s) ==
    IF s # <<>> /\ Head(s) \in SpaceChars THEN DropBlanks(Tail(s)) ELSE s

RECURSIVE DropBlanksAtEnd(_)
\* the text without its trailing blanks
DropBlanksAtEnd(s) ==
    IF s # <<>> /\ s[Len(s)] \in SpaceChars
    THEN DropBlanksAtEnd(SubSeq(s, 1, Len(s) - 1))
    ELSE s

\* a text trimmed on both sides
Trimmed(s) == DropBlanksAtEnd(DropBlanks(s))

\* the trimmed non-empty sentences of a text: the text is cut after every
\* '.', '!' or '?' that a blank follows
SentencesOf(text) ==
    LET cuts == {i \in 1..(Len(text) - 1) :
                    text[i] \in TerminalChars /\ text[i + 1] \in SpaceChars}
        ends == Ascending(cuts \cup {Len(text)})
        segment(k) == SubSeq(text, IF k = 1 THEN 1 ELSE ends[k - 1] + 1, ends[k])
        kept == {k \in DOMAIN ends : Trimmed(segment(k)) # <<>>}
    IN  [n \in 1..Cardinality(kept) |-> Trimmed(segment(Ascending(kept)[n]))]

\* C12: fallback_summarize returns a text shorter than 300 characters
\* unchanged; a longer text of three or fewer sentences unchanged; and of a
\* longer text of more sentences the first, the second and the last
\* sentence, in that order, joined by single blanks
C12_FallbackSummarizeComputes ==
    (call.fn = "fallback_summarize" /\ results # <<>>) =>
        LET text == call.args[1]
            sentences == SentencesOf(text)
        IN  results[1] =
                IF Len(text) < ShortTextThreshold THEN text
                ELSE IF Len(sentences) <= 3 THEN text
                ELSE sentences[1] \o <<" ">> \o sentences[2] \o <<" ">>
                         \o sentences[Len(sentences)]

\* a text of 300 characters or more that starts with a blank, has more than
\* three sentences and was condensed
C12_Witness ==
    /\ call.fn = "fallback_summarize" /\ results # <<>>
    /\ Len(call.args[1]) >= ShortTextThreshold
    /\ call.args[1][1] = " "
    /\ Len(SentencesOf(call.args[1])) > 3
    /\ results[1] # call.args[1]

\* C13: fallback_summarize(t) is never longer than t, and fallback_summarize
\* applied to fallback_summarize(t) returns it unchanged
C13_FallbackSummarizeIdempotent ==
    call.fn = "fallback_summarize" =>
        /\ Len(results) >= 1 => Len(results[1]) <= Len(call.args[1])
        /\ Len(results) >= 2 =>
              /\ results[2] = results[1]
              /\ Len(results[2]) <= Len(results[1])

\* a text was condensed to a summary of 300 characters or more, and the
\* summary was summarized again
C13_Witness ==
    /\ call.fn = "fallback_summarize" /\ Len(results) = 2
    /\ results[1] # call.args[1]
    /\ Len(results[1]) >= ShortTextThreshold

----------------------------------------------------------------------------
(* Properties of normalize_title *)

\* the tokens of a title, lower-cased: the maximal runs of letters, digits
\* and underscores, as re.findall(r'\w+', ...) cuts them
TokensOf(title) == findall_words(lower(title))

\* how often w is a token of the title
Occurrences(w, title) ==
    Cardinality({i \in DOMAIN TokensOf(title) : TokensOf(title)[i] = w})

\* the significant words of a title: its tokens longer than 3 characters
SignificantWords(title) ==
    {w \in Range(TokensOf(title)) : Len(w) > SignificantLen}

\* the two titles consist of the same significant words, each as often in
\* the one as in the other, in any order
SameSignificantWords(t1, t2) ==
    /\ SignificantWords(t1) = SignificantWords(t2)
    /\ \A w \in SignificantWords(t1) : Occurrences(w, t1) = Occurrences(w, t2)

C17_KeyIsFunctionOfWordSet ==
    (call.fn = "normalize_title" /\ results # <<>>) =>
        (SignificantWords(call.args[1]) = SignificantWords(call.args[2])
            => results[1] = results[2])

----------------------------------------------------------------------------
(* Properties of the cascade of get_quality_news *)

\* the number of articles accumulated before the k-th source call
CountBefore(k) == Len(ConcatArts(SubSeq(fetched, 1, k - 1)))

\* C15, as stated for every num_articles: the sources are called in the
\* order NewsAPI (only with NEWSAPI_KEY set), RSS, Google News, Bing News,
\* none skipped and none twice; each call finds fewer than num_articles
\* articles accumulated and asks for exactly the missing number; once
\* num_articles are accumulated get_quality_news returns without another
\* call, and it does not return with fewer before Bing News was called
C15_EveryCallBelowCount ==
    /\ \A k \in DOMAIN fetched :
          /\ CountBefore(k) < req.num_articles
          /\ fetched[k].limit = req.num_articles - CountBefore(k)
          /\ fetched[k].source = "newsapi" => env.NEWSAPI_KEY
          /\ fetched[k].source =
                 IF k > 1 THEN NextSource[fetched[k - 1].source]
                 ELSE IF env.NEWSAPI_KEY THEN "newsapi" ELSE "rss"
    /\ (fetched # <<>> /\ Len(ConcatArts(fetched)) >= req.num_articles) => HasReturned
    /\ (HasReturned /\ Len(ConcatArts(fetched)) < req.num_articles) =>
          fetched # <<>> /\ fetched[Len(fetched)].source = "bing"

\* C15, amended: the statement above holds for num_articles >= 1; for
\* num_articles <= 0 no source but NewsAPI is called, and NewsAPI is called,
\* for num_articles articles, whenever NEWSAPI_KEY is set: line 80 does not
\* look at the count
C15_SourcesInOrderWithinLimit ==
    IF req.num_articles >= 1 THEN C15_EveryCallBelowCount
    ELSE /\ \A k \in DOMAIN fetched :
               /\ k = 1 /\ env.NEWSAPI_KEY
               /\ fetched[k].source = "newsapi"
               /\ fetched[k].limit = req.num_articles
         /\ (HasReturned /\ env.NEWSAPI_KEY) => Len(fetched) = 1

\* all four sources were called, each later one for fewer articles: NewsAPI
\* for 3, the feeds for 2, and the search feeds for the one still missing
C15_Witness ==
    /\ pc = "returned" /\ req.num_articles = 3
    /\ Len(fetched) = 4
    /\ fetched[1].limit = 3 /\ fetched[2].limit = 2
    /\ fetched[3].limit = 1 /\ fetched[4].limit = 1

RECURSIVE IsSubsequence(_, _)
\* a is b with some of its elements left out, the others in their order
IsSubsequence(a, b) ==
    IF a = <<>> THEN TRUE
    ELSE IF b = <<>> THEN FALSE
    ELSE IF Head(a) = Head(b) THEN IsSubsequence(Tail(a), Tail(b))
    ELSE IsSubsequence(a, Tail(b))

\* C16: the sequence get_quality_news returns is a subsequence of the results
\* of the source calls, concatenated in call order: every article of it came
\* from a source and the articles keep their order, within a source and
\* across sources; the one exception is the placeholder, returned alone
\* when no source returned an article
C16_ReturnedIsSubsequence ==
    pc = "returned" =>
        \/ IsSubsequence(news, ConcatArts(fetched))
        \/ ConcatArts(fetched) = <<>> /\ news = <<placeholder(req.query)>>

\* articles of two sources came back, and the deduplication dropped one
\* that stood between them
C16_Witness ==
    /\ pc = "returned"
    /\ Len(news) >= 2
    /\ news # SubSeq(ConcatArts(fetched), 1, Len(news))
    /\ \E a, b \in DOMAIN fetched :
          a < b /\ news[1] \in Range(fetched[a].arts)
                /\ news[Len(news)] \in Range(fetched[b].arts)

\* every token of the title has 3 characters or fewer
AllTokensShort(title) ==
    \A w \in Range(TokensOf(title)) : Len(w) <= SignificantLen

\* the step that runs the deduplication pass, as C18 describes it:
\* get_quality_news is past the last source, `articles` becomes the
\* accumulated sequence and `news` what the pass and the slice leave of it
C18_Step ==
    pc = "bing" =>
        LET short == {i \in DOMAIN articles' : AllTokensShort(articles'[i].title)}
            kept == {j \in DOMAIN news' : AllTokensShort(news'[j].title)}
        IN  /\ \A i \in short : Key(articles'[i]) = <<>>
            /\ Cardinality(kept) <= 1
            /\ \A j \in kept :
                  news'[j] = articles'[CHOOSE i \in short : \A h \in short : i <= h]

----------------------------------------------------------------------------
(* Properties of a whole request *)

\* C19: for num_articles >= 1 get_quality_news returns at least one article,
\* whatever the sources return and however they fail, and send_digest does
\* not answer "no articles found"; that answer is given only to a request
\* with num_articles <= 0
C19_NeverEmptyForPositiveCount ==
    /\ (HasReturned /\ req.num_articles >= 1) =>
          /\ news # <<>>
          /\ response.status # "no articles found"
    /\ response.status = "no articles found" => req.num_articles <= 0

\* every source was called and failed or found nothing, and the request
\* for one article or more was still answered with a digest or an error
C19_Witness ==
    /\ pc = "done" /\ req.num_articles >= 1
    /\ Len(fetched) = 4
    /\ fetched[1].raised
    /\ \A k \in DOMAIN fetched : fetched[k].arts = <<>>
    /\ news # <<>>
    /\ response.status \in {"digest sent", "error"}

\* one step of send_digest, as C20 describes it
C20_Step ==
    /\ Len(delivered') <= 1
    /\ delivered' # delivered => pc = "summaries" /\ idx > Len(news)
    /\ summarized' # summarized => delivered = <<>> /\ delivered' = <<>>
    /\ response'.status = "digest sent" =>
          /\ Len(delivered') = 1
          /\ ~delivered'[1].raised
          /\ response'.article_count = Len(delivered'[1].articles)
          /\ DOMAIN response'.articles = DOMAIN delivered'[1].articles
          /\ \A k \in DOMAIN response'.articles :
                response'.articles[k].title = delivered'[1].articles[k].title

\* C20: within one request send_email_digest is called at most once, after
\* the summary loop has ended and never before a summarize call; the answer
\* "digest sent" is given only when that call returned without raising, and
\* its article_count and titles are those of the articles handed to
\* send_email_digest
C20_DeliverOnceAfterSummaries == [][C20_Step]_vars

\* two articles were summarized, then one delivery went out and the request
\* was answered with "digest sent" and three articles, one without summary
C20_Witness ==
    /\ pc = "done" /\ response.status = "digest sent"
    /\ Len(summarized) >= 2
    /\ Len(delivered) = 1
    /\ response.article_count = 3
    /\ \E k \in DOMAIN news : news[k].summary = <<>>

====
